---- MODULE Spec2Model ----
(***************************************************************************)
(* Agrihub (src/app.py): the job lifecycle of a Flask/SQLAlchemy           *)
(* application.  Farmers post jobs; labourers view them, ask for changes   *)
(* and confirm assignments; farmers accept or reject change requests and   *)
(* assign labourers directly.                                              *)
(*                                                                         *)
(* The database tables are sequences: the row with primary key i is the    *)
(* i-th element (rows are never deleted, ids are handed out in order).     *)
(* A nullable column holds an option: << >> is None, <<v>> is the value v. *)
(* A form field is a sequence of characters; a missing field and an empty  *)
(* one are both << >> (both are falsy where the handlers test them).       *)
(* A handler is one action: it runs in one database session that is        *)
(* committed once at its end or rolled back when it raises.                *)
(*                                                                         *)
(* Spec runs the requests one after the other.  SpecReg is registration    *)
(* from the empty database.  SpecAssignRace and SpecViewRace run requests  *)
(* of the development server's threads concurrently: assign_labour and     *)
(* job_view read the table first, outside any transaction, and write and   *)
(* commit in a later step; inflight holds what each thread has read.       *)
(***************************************************************************)
EXTENDS Integers, Sequences, FiniteSets

VARIABLES users, jobs, views, crs, assignments, last, inflight

vars == <<users, jobs, views, crs, assignments, last, inflight>>

db == <<users, jobs, views, crs, assignments>>

(***************************************************************************)
(* Bounds of the model.                                                    *)
(***************************************************************************)
MaxJobs == 1

MaxCR == 1

MaxUsers == 3

MaxThreads == 2

(***************************************************************************)
(* Options and form values.                                                *)
(***************************************************************************)
None == << >>

Some(v) == <<v>>

\* Python truthiness of a nullable Integer column: None and 0 are falsy.
TruthyInt(o) == o # None /\ o[1] # 0

\* Python truthiness of a nullable String column: None and "" are falsy.
TruthyStr(o) == o # None /\ o[1] # ""

Digits == <<"0", "1", "2", "3", "4", "5", "6", "7", "8", "9">>

IsDigit(c) == \E i \in 1..10 : Digits[i] = c

DigitVal(c) == (CHOOSE i \in 1..10 : Digits[i] = c) - 1

RECURSIVE DigitsValue(_)
DigitsValue(s) ==
    IF s = << >> THEN 0
    ELSE 10 * DigitsValue(SubSeq(s, 1, Len(s) - 1)) + DigitVal(s[Len(s)])

AllDigits(s) == s # << >> /\ \A i \in 1..Len(s) : IsDigit(s[i])

\* int(s) accepts an optional sign followed by decimal digits.
IntOK(s) ==
    /\ s # << >>
    /\ IF s[1] \in {"-", "+"} THEN AllDigits(Tail(s)) ELSE AllDigits(s)

\* int(s) for a string int() accepts.
IntValue(s) ==
    IF s[1] = "-" THEN 0 - DigitsValue(Tail(s))
    ELSE IF s[1] = "+" THEN DigitsValue(Tail(s))
    ELSE DigitsValue(s)

(***************************************************************************)
(* Inputs.                                                                 *)
(***************************************************************************)
\* The 'days' field of the post_job form.
DaysForms == {<< >>, <<"0">>, <<"x">>}

\* The override fields of the request_change form.
ChangeForms ==
    { [requested_days |-> << >>,         requested_wage |-> "",    requested_stay |-> ""],
      [requested_days |-> <<"1", "2">>,  requested_wage |-> "600", requested_stay |-> ""],
      [requested_days |-> <<"0">>,       requested_wage |-> "",    requested_stay |-> "tent"],
      [requested_days |-> <<"x">>,       requested_wage |-> "",    requested_stay |-> ""] }

\* The 'decision' field of the decide form ("" is a missing field).
Decisions == {"accept", "reject", ""}

\* The 'phone' field of the registration forms.
Phones == {"p1", "p2", "p3"}

\* session['user_id']: 0 is no session.
Sessions == 0..Len(users)

\* The threads that serve requests.
Threads == 1..MaxThreads

\* Ids that arrive in URLs: every id a table can hold and one beyond.
JobArgs == 1..(MaxJobs + 1)

ChangeArgs == 1..(MaxCR + 1)

AssignArgs == 1..(Len(assignments) + 1)

LabourArgs == {u \in 1..Len(users) : users[u].role = "labour"}

(***************************************************************************)
(* Helpers.                                                                *)
(***************************************************************************)
\* current_user(): the User of the session, or None.
current_user(uid) == IF uid \in 1..Len(users) THEN Some(users[uid]) ELSE None

HasRole(uid, role) == current_user(uid) # None /\ current_user(uid)[1].role = role

\* What the last request was and how it ended.
Last(op, actor, id, labour, decision, found, result) ==
    [op |-> op, actor |-> actor, id |-> id, labour |-> labour,
     decision |-> decision, found |-> found, result |-> result]

\* A request that wrote nothing: only the handler and its result are kept.
Outcome(op, result) == Last(op, 0, 0, 0, "", FALSE, result)

\* Rows of a table for one (job_id, labour_id) pair.
RowsFor(table, job_id, labour_id) ==
    {i \in 1..Len(table) : table[i].job_id = job_id /\ table[i].labour_id = labour_id}

\* Query.filter_by(job_id=..., labour_id=...).first(): 0 when there is none.
First(table, job_id, labour_id) ==
    IF RowsFor(table, job_id, labour_id) = {} THEN 0
    ELSE CHOOSE i \in RowsFor(table, job_id, labour_id) :
            \A k \in RowsFor(table, job_id, labour_id) : i <= k

(***************************************************************************)
(* Initial state: an empty database but for four registered users.         *)
(***************************************************************************)
Init ==
    /\ users = << [phone |-> "p1", role |-> "farmer"],
                  [phone |-> "p2", role |-> "farmer"],
                  [phone |-> "p3", role |-> "labour"],
                  [phone |-> "p4", role |-> "labour"] >>
    /\ jobs = << >>
    /\ views = << >>
    /\ crs = << >>
    /\ assignments = << >>
    /\ last = Last("init", 0, 0, 0, "", FALSE, "ok")
    /\ inflight = [t \in Threads |-> None]

(***************************************************************************)
(* POST /farmer/register and POST /labour/register                         *)
(***************************************************************************)
\* User.query.filter_by(phone=phone).first(), scoped to one role.
PhoneTakenInRole(phone, role) ==
    \E u \in 1..Len(users) : users[u].phone = phone /\ users[u].role = role

\* User.query.filter_by(phone=phone).first(): any user, whatever the role.
PhoneTaken(phone, role) == \E u \in 1..Len(users) : users[u].phone = phone

\* The unique constraint of User.phone refuses the insert.
ViolatesUnique(table, phone) == \E u \in 1..Len(table) : table[u].phone = phone

Register(op, role, phone) ==
    /\ Len(users) < MaxUsers
    /\ IF PhoneTaken(phone, role)
       THEN \* 'Phone already registered'
            /\ UNCHANGED db
            /\ last' = Last(op, 0, 0, 0, "", TRUE, "duplicate")
       ELSE IF ViolatesUnique(users, phone)
       THEN \* IntegrityError at the commit, the session is rolled back
            /\ UNCHANGED db
            /\ last' = Outcome(op, "500")
       ELSE /\ users' = Append(users, [phone |-> phone, role |-> role])
            /\ UNCHANGED <<jobs, views, crs, assignments>>
            /\ last' = Last(op, 0, Len(users) + 1, 0, "", FALSE, "ok")

farmer_register(phone) == Register("farmer_register", "farmer", phone)

labour_register(phone) == Register("labour_register", "labour", phone)

(***************************************************************************)
(* POST /farmer/post_job                                                   *)
(***************************************************************************)
\* int(request.form.get('days') or 1)
PostDays(form) == IF form = << >> THEN 1 ELSE IntValue(form)

NewJob(uid, days) ==
    [farmer_id |-> uid, title |-> "harvest", work_type |-> "field",
     days |-> days, stay_info |-> Some("none"), wage |-> Some("500"),
     location |-> "village", contact |-> "c", status |-> "open"]

post_job(uid) ==
    /\ Len(jobs) < MaxJobs
    /\ IF ~HasRole(uid, "farmer")
       THEN /\ UNCHANGED db
            /\ last' = Outcome("post_job", "login")
       ELSE \E form \in DaysForms :
            IF form # << >> /\ ~IntOK(form)
            THEN \* int() raises ValueError
                 /\ UNCHANGED db
                 /\ last' = Outcome("post_job", "500")
            ELSE /\ jobs' = Append(jobs, NewJob(uid, PostDays(form)))
                 /\ UNCHANGED <<users, views, crs, assignments>>
                 /\ last' = Last("post_job", uid, Len(jobs) + 1, 0, "", FALSE, "ok")

(***************************************************************************)
(* GET /job/<job_id>                                                       *)
(***************************************************************************)
NewView(job_id, labour_id) ==
    [job_id |-> job_id, labour_id |-> labour_id, seen |-> FALSE]

\* Insert a ViewNotification for the pair unless the lookup finds one.
RecordViewAlways(table, job_id, labour_id) ==
    Append(table, NewView(job_id, labour_id))

RecordView(table, job_id, labour_id) ==
    IF First(table, job_id, labour_id) = 0
    THEN Append(table, NewView(job_id, labour_id))
    ELSE table

job_view(uid, job_id) ==
    IF job_id \notin 1..Len(jobs)
    THEN /\ UNCHANGED db
         /\ last' = Outcome("job_view", "404")
    ELSE IF ~HasRole(uid, "labour")
    THEN /\ UNCHANGED db
         /\ last' = Outcome("job_view", "ok")
    ELSE /\ views' = RecordView(views, job_id, uid)
         /\ UNCHANGED <<users, jobs, crs, assignments>>
         /\ last' = Last("job_view", uid, job_id, uid, "",
                         First(views, job_id, uid) # 0, "ok")

(***************************************************************************)
(* POST /job/<job_id>/request_change                                       *)
(***************************************************************************)
NewChangeRequest(job_id, labour_id, form) ==
    [job_id |-> job_id, labour_id |-> labour_id,
     requested_days |-> IF form.requested_days # << >>
                        THEN Some(IntValue(form.requested_days)) ELSE None,
     requested_wage |-> IF form.requested_wage # ""
                        THEN Some(form.requested_wage) ELSE None,
     requested_stay |-> IF form.requested_stay # ""
                        THEN Some(form.requested_stay) ELSE None,
     status |-> "pending"]

request_change(uid, job_id) ==
    /\ Len(crs) < MaxCR
    /\ IF ~HasRole(uid, "labour")
       THEN /\ UNCHANGED db
            /\ last' = Outcome("request_change", "login")
       ELSE \E form \in ChangeForms :
            IF form.requested_days # << >> /\ ~IntOK(form.requested_days)
            THEN \* int() raises ValueError
                 /\ UNCHANGED db
                 /\ last' = Outcome("request_change", "500")
            ELSE /\ crs' = Append(crs, NewChangeRequest(job_id, uid, form))
                 /\ UNCHANGED <<users, jobs, views, assignments>>
                 /\ last' = Last("request_change", uid, Len(crs) + 1, uid, "",
                                 FALSE, "ok")

(***************************************************************************)
(* The Assignment for a (job, labourer) pair: create it or set its flag.   *)
(***************************************************************************)
NewAssignmentUnaccepted(job_id, labour_id) ==
    [job_id |-> job_id, labour_id |-> labour_id,
     accepted_by_farmer |-> FALSE, confirmed_by_labour |-> FALSE]

NewAssignment(job_id, labour_id) ==
    [job_id |-> job_id, labour_id |-> labour_id,
     accepted_by_farmer |-> TRUE, confirmed_by_labour |-> FALSE]

\* Rows of the Assignment table for one job, whoever the labourer is.
RowsOfJob(table, job_id) == {i \in 1..Len(table) : table[i].job_id = job_id}

UpsertAssignmentByJob(table, job_id, labour_id) ==
    IF RowsOfJob(table, job_id) = {}
    THEN Append(table, NewAssignment(job_id, labour_id))
    ELSE [table EXCEPT ![CHOOSE i \in RowsOfJob(table, job_id) : TRUE] =
              [@ EXCEPT !.labour_id = labour_id, !.accepted_by_farmer = TRUE]]

InsertAssignment(table, job_id, labour_id) ==
    Append(table, NewAssignment(job_id, labour_id))

UpsertAssignment(table, job_id, labour_id) ==
    IF First(table, job_id, labour_id) = 0
    THEN Append(table, NewAssignment(job_id, labour_id))
    ELSE [table EXCEPT ![First(table, job_id, labour_id)].accepted_by_farmer = TRUE]

(***************************************************************************)
(* POST /change/<change_id>/decide                                         *)
(***************************************************************************)
\* The truthy overrides of the request replace the job's fields.
ApplyOverridesAnyDays(job, cr) ==
    [job EXCEPT
        !.days = IF cr.requested_days # None THEN cr.requested_days[1] ELSE @,
        !.wage = IF TruthyStr(cr.requested_wage) THEN cr.requested_wage ELSE @,
        !.stay_info = IF TruthyStr(cr.requested_stay) THEN cr.requested_stay ELSE @]

ApplyOverridesNoDays(job, cr) ==
    [job EXCEPT
        !.wage = IF TruthyStr(cr.requested_wage) THEN cr.requested_wage ELSE @,
        !.stay_info = IF TruthyStr(cr.requested_stay) THEN cr.requested_stay ELSE @]

ApplyOverrides(job, cr) ==
    [job EXCEPT
        !.days = IF TruthyInt(cr.requested_days) THEN cr.requested_days[1] ELSE @,
        !.wage = IF TruthyStr(cr.requested_wage) THEN cr.requested_wage ELSE @,
        !.stay_info = IF TruthyStr(cr.requested_stay) THEN cr.requested_stay ELSE @]

AcceptJob(job, cr) == [ApplyOverrides(job, cr) EXCEPT !.status = "assigned"]

\* Job.query.get returned None: the handler raises before its commit and the
\* session, with the writes made so far, is rolled back.
AcceptWithoutJobCommitted(change_id) ==
    /\ crs' = [crs EXCEPT ![change_id].status = "accepted"]
    /\ assignments' = UpsertAssignment(assignments, crs[change_id].job_id,
                                       crs[change_id].labour_id)
    /\ jobs' = jobs

AcceptWithoutJob(change_id) ==
    /\ crs' = crs
    /\ assignments' = assignments
    /\ jobs' = jobs

AcceptChange(change_id) ==
    /\ crs' = [crs EXCEPT ![change_id].status = "accepted"]
    /\ assignments' = UpsertAssignment(assignments, crs[change_id].job_id,
                                       crs[change_id].labour_id)
    /\ jobs' = [jobs EXCEPT ![crs[change_id].job_id] = AcceptJob(@, crs[change_id])]

RejectChangeReopen(change_id) ==
    /\ crs' = [crs EXCEPT ![change_id].status = "rejected"]
    /\ assignments' = assignments
    /\ jobs' = [j \in 1..Len(jobs) |->
                    IF j = crs[change_id].job_id
                    THEN [jobs[j] EXCEPT !.status = "open"] ELSE jobs[j]]

RejectChange(change_id) ==
    /\ crs' = [crs EXCEPT ![change_id].status = "rejected"]
    /\ assignments' = assignments
    /\ jobs' = jobs

decide_change(uid, change_id) ==
    IF ~HasRole(uid, "farmer")
    THEN /\ UNCHANGED db
         /\ last' = Outcome("decide_change", "login")
    ELSE IF change_id \notin 1..Len(crs)
    THEN /\ UNCHANGED db
         /\ last' = Outcome("decide_change", "404")
    ELSE \E decision \in Decisions :
    IF decision = "accept"
    THEN IF crs[change_id].job_id \notin 1..Len(jobs)
         THEN /\ AcceptWithoutJob(change_id)
              /\ UNCHANGED <<users, views>>
              /\ last' = Outcome("decide_change", "500")
         ELSE /\ AcceptChange(change_id)
              /\ UNCHANGED <<users, views>>
              /\ last' = Last("decide_change", uid, change_id,
                              crs[change_id].labour_id, decision,
                              First(assignments, crs[change_id].job_id,
                                    crs[change_id].labour_id) # 0, "ok")
    ELSE /\ RejectChange(change_id)
         /\ UNCHANGED <<users, views>>
         /\ last' = Last("decide_change", uid, change_id,
                         crs[change_id].labour_id, decision, FALSE, "ok")

(***************************************************************************)
(* POST /assign/<job_id>/<labour_id>                                       *)
(***************************************************************************)
AssignJobKeepStatus(job) == job

AssignJobConfirmed(job) == [job EXCEPT !.status = "confirmed"]

AssignJob(job) == [job EXCEPT !.status = "assigned"]

assign_labour(uid, job_id, labour_id) ==
    IF ~HasRole(uid, "farmer")
    THEN /\ UNCHANGED db
         /\ last' = Outcome("assign_labour", "login")
    ELSE IF job_id \notin 1..Len(jobs)
    THEN \* job is None: AttributeError, the session is rolled back
         /\ UNCHANGED db
         /\ last' = Outcome("assign_labour", "500")
    ELSE /\ assignments' = UpsertAssignment(assignments, job_id, labour_id)
         /\ jobs' = [jobs EXCEPT ![job_id] = AssignJob(@)]
         /\ UNCHANGED <<users, views, crs>>
         /\ last' = Last("assign_labour", uid, job_id, labour_id, "",
                         First(assignments, job_id, labour_id) # 0, "ok")

(***************************************************************************)
(* POST /assignment/<assign_id>/confirm                                    *)
(***************************************************************************)
\* The labourer of the session is the labourer of the assignment.
MayConfirmAnyone(uid, assign) == TRUE

MayConfirmAnyLabourer(uid, assign) == HasRole(uid, "labour")

MayConfirm(uid, assign) == assign.labour_id = uid

SetConfirmed(assign) == [assign EXCEPT !.confirmed_by_labour = TRUE]

\* if both accepted & confirmed -> mark job confirmed
ConfirmJob(job, assign) ==
    IF assign.accepted_by_farmer /\ assign.confirmed_by_labour
    THEN [job EXCEPT !.status = "confirmed"]
    ELSE job

confirm_assignment(uid, assign_id) ==
    IF ~HasRole(uid, "labour")
    THEN /\ UNCHANGED db
         /\ last' = Outcome("confirm_assignment", "login")
    ELSE IF assign_id \notin 1..Len(assignments)
    THEN /\ UNCHANGED db
         /\ last' = Outcome("confirm_assignment", "404")
    ELSE IF ~MayConfirm(uid, assignments[assign_id])
    THEN /\ UNCHANGED db
         /\ last' = Outcome("confirm_assignment", "forbidden")
    ELSE IF /\ assignments[assign_id].job_id \notin 1..Len(jobs)
            /\ SetConfirmed(assignments[assign_id]).accepted_by_farmer
    THEN \* job is None: AttributeError, the session is rolled back
         /\ UNCHANGED db
         /\ last' = Outcome("confirm_assignment", "500")
    ELSE /\ assignments' = [assignments EXCEPT ![assign_id] = SetConfirmed(@)]
         /\ jobs' = IF assignments[assign_id].job_id \in 1..Len(jobs)
                    THEN [jobs EXCEPT ![assignments[assign_id].job_id] =
                              ConfirmJob(@, SetConfirmed(assignments[assign_id]))]
                    ELSE jobs
         /\ UNCHANGED <<users, views, crs>>
         /\ last' = Last("confirm_assignment", uid, assign_id,
                         assignments[assign_id].labour_id, "", FALSE, "ok")

(***************************************************************************)
(* The next-state relation: any request, by any session.                   *)
(***************************************************************************)
Next ==
    \/ \E uid \in Sessions : post_job(uid) /\ UNCHANGED inflight
    \/ \E uid \in Sessions, job_id \in JobArgs :
            job_view(uid, job_id) /\ UNCHANGED inflight
    \/ \E uid \in Sessions, job_id \in JobArgs :
            request_change(uid, job_id) /\ UNCHANGED inflight
    \/ \E uid \in Sessions, change_id \in ChangeArgs :
            decide_change(uid, change_id) /\ UNCHANGED inflight
    \/ \E uid \in Sessions, job_id \in JobArgs, labour_id \in LabourArgs :
            assign_labour(uid, job_id, labour_id) /\ UNCHANGED inflight
    \/ \E uid \in Sessions, assign_id \in AssignArgs :
            confirm_assignment(uid, assign_id) /\ UNCHANGED inflight

Spec == Init /\ [][Next]_vars

(***************************************************************************)
(* Registration, from the empty database.                                  *)
(***************************************************************************)
InitReg ==
    /\ users = << >>
    /\ jobs = << >>
    /\ views = << >>
    /\ crs = << >>
    /\ assignments = << >>
    /\ last = Last("init", 0, 0, 0, "", FALSE, "ok")
    /\ inflight = [t \in Threads |-> None]

NextReg ==
    \/ \E phone \in Phones : farmer_register(phone) /\ UNCHANGED inflight
    \/ \E phone \in Phones : labour_register(phone) /\ UNCHANGED inflight

SpecReg == InitReg /\ [][NextReg]_vars

(***************************************************************************)
(* Concurrent requests.  The lookup of assign_labour and of job_view is a  *)
(* SELECT outside any transaction; the write and the commit come later,    *)
(* with what the lookup returned.                                          *)
(***************************************************************************)
Request(op, uid, job_id, labour_id, found) ==
    [op |-> op, uid |-> uid, job_id |-> job_id, labour_id |-> labour_id,
     found |-> found]

Idle(t) == inflight[t] = None

\* assign_labour up to its lookup (lines 287-290).
assign_lookup(t, uid, job_id, labour_id) ==
    /\ Idle(t)
    /\ IF ~HasRole(uid, "farmer")
       THEN /\ UNCHANGED <<db, inflight>>
            /\ last' = Outcome("assign_labour", "login")
       ELSE /\ inflight' = [inflight EXCEPT ![t] =
                   Some(Request("assign_labour", uid, job_id, labour_id,
                                First(assignments, job_id, labour_id)))]
            /\ UNCHANGED <<db, last>>

\* if not assign: add a new Assignment, else set the flag of the one found.
WriteAssignment(table, found, job_id, labour_id) ==
    IF found = 0
    THEN Append(table, NewAssignment(job_id, labour_id))
    ELSE [table EXCEPT ![found].accepted_by_farmer = TRUE]

\* assign_labour from its write to its commit (lines 291-298).
assign_commit(t) ==
    /\ ~Idle(t)
    /\ inflight[t][1].op = "assign_labour"
    /\ LET req == inflight[t][1]
       IN  IF req.job_id \notin 1..Len(jobs)
           THEN \* job is None: AttributeError, the session is rolled back
                /\ UNCHANGED db
                /\ last' = Outcome("assign_labour", "500")
           ELSE /\ assignments' = WriteAssignment(assignments, req.found,
                                                  req.job_id, req.labour_id)
                /\ jobs' = [jobs EXCEPT ![req.job_id] = AssignJob(@)]
                /\ UNCHANGED <<users, views, crs>>
                /\ last' = Last("assign_labour", req.uid, req.job_id,
                                req.labour_id, "", req.found # 0, "ok")
    /\ inflight' = [inflight EXCEPT ![t] = None]

\* job_view up to its lookup (lines 210-216).
view_lookup(t, uid, job_id) ==
    /\ Idle(t)
    /\ IF job_id \notin 1..Len(jobs)
       THEN /\ UNCHANGED <<db, inflight>>
            /\ last' = Outcome("job_view", "404")
       ELSE IF ~HasRole(uid, "labour")
       THEN /\ UNCHANGED <<db, inflight>>
            /\ last' = Outcome("job_view", "ok")
       ELSE /\ inflight' = [inflight EXCEPT ![t] =
                   Some(Request("job_view", uid, job_id, uid,
                                First(views, job_id, uid)))]
            /\ UNCHANGED <<db, last>>

\* if not existing: add a ViewNotification and commit.
WriteView(table, found, job_id, labour_id) ==
    IF found = 0 THEN Append(table, NewView(job_id, labour_id)) ELSE table

\* job_view from its write to its commit (lines 217-220).
view_commit(t) ==
    /\ ~Idle(t)
    /\ inflight[t][1].op = "job_view"
    /\ LET req == inflight[t][1]
       IN  /\ views' = WriteView(views, req.found, req.job_id, req.labour_id)
           /\ UNCHANGED <<users, jobs, crs, assignments>>
           /\ last' = Last("job_view", req.uid, req.job_id, req.labour_id, "",
                           req.found # 0, "ok")
    /\ inflight' = [inflight EXCEPT ![t] = None]

NextAssignRace ==
    \/ \E uid \in Sessions : post_job(uid) /\ UNCHANGED inflight
    \/ \E t \in Threads, uid \in Sessions, job_id \in JobArgs,
          labour_id \in LabourArgs : assign_lookup(t, uid, job_id, labour_id)
    \/ \E t \in Threads : assign_commit(t)

SpecAssignRace == Init /\ [][NextAssignRace]_vars

NextViewRace ==
    \/ \E uid \in Sessions : post_job(uid) /\ UNCHANGED inflight
    \/ \E t \in Threads, uid \in Sessions, job_id \in JobArgs :
            view_lookup(t, uid, job_id)
    \/ \E t \in Threads : view_commit(t)

SpecViewRace == Init /\ [][NextViewRace]_vars

(***************************************************************************)
(* Properties.                                                             *)
(***************************************************************************)
JobIds == 1..Len(jobs)

Statuses == {"open", "assigned", "confirmed", "closed"}

Handshaken(assign) == assign.accepted_by_farmer /\ assign.confirmed_by_labour

Accepting(l) == l.op = "decide_change" /\ l.decision = "accept" /\ l.result = "ok"

Rejecting(l) == l.op = "decide_change" /\ l.decision # "accept" /\ l.result = "ok"

Assigning(l) == l.op = "assign_labour" /\ l.result = "ok"

Confirming(l) == l.op = "confirm_assignment" /\ l.result = "ok"

Viewing(l) == l.op = "job_view" /\ l.result = "ok" /\ l.labour # 0

\* C1: every job's status is one of open, assigned, confirmed, closed, and a
\* confirmed job has an Assignment with both flags true.
C1_StatusAndHandshake ==
    \A j \in JobIds :
        /\ jobs[j].status \in Statuses
        /\ jobs[j].status = "confirmed" =>
              \E a \in 1..Len(assignments) :
                  assignments[a].job_id = j /\ Handshaken(assignments[a])

C1_Witness ==
    \E j \in JobIds, a \in 1..Len(assignments) :
        /\ jobs[j].status = "confirmed"
        /\ assignments[a].job_id = j
        /\ Handshaken(assignments[a])

\* C2: with requests running one after the other, the Assignment table holds
\* at most one row per (job, labourer) pair, and an acceptance that finds the
\* pair's row leaves that row with accepted_by_farmer set.
C2_OneAssignmentPerPair ==
    /\ \A j \in JobArgs, l \in LabourArgs :
          Cardinality(RowsFor(assignments, j, l)) <= 1
    /\ (Assigning(last) /\ last.found) =>
          assignments[First(assignments, last.id, last.labour)].accepted_by_farmer
    /\ (Accepting(last) /\ last.found) =>
          assignments[First(assignments, crs[last.id].job_id,
                            last.labour)].accepted_by_farmer

C2_Witness ==
    /\ Assigning(last)
    /\ last.found
    /\ \E c \in 1..Len(crs) :
          /\ crs[c].status = "accepted"
          /\ crs[c].job_id = last.id
          /\ crs[c].labour_id = last.labour
    /\ Cardinality(RowsFor(assignments, last.id, last.labour)) = 1

\* C3: with requests running one after the other, there is at most one
\* ViewNotification per (job, labourer) pair: a labourer's first view of a job
\* inserts it and a later view writes nothing.
C3_OneViewPerPair ==
    [][/\ \A j \in JobArgs, l \in LabourArgs :
             Cardinality(RowsFor(views', j, l)) <= 1
       /\ Viewing(last') =>
             /\ Cardinality(RowsFor(views', last'.id, last'.labour)) = 1
             /\ last'.found => UNCHANGED db
             /\ ~last'.found => Len(views') = Len(views) + 1]_vars

C3_Witness ==
    /\ Viewing(last)
    /\ last.found
    /\ Cardinality(RowsFor(views, last.id, last.labour)) = 1

\* The four effects of accepting change request c, of job j.
AcceptEffects(c, j) ==
    /\ crs'[c].status = "accepted"
    /\ \E a \in 1..Len(assignments') :
          /\ assignments'[a].job_id = j
          /\ assignments'[a].labour_id = crs[c].labour_id
          /\ assignments'[a].accepted_by_farmer
    /\ TruthyInt(crs[c].requested_days) => jobs'[j].days = crs[c].requested_days[1]
    /\ TruthyStr(crs[c].requested_wage) => jobs'[j].wage = crs[c].requested_wage
    /\ TruthyStr(crs[c].requested_stay) => jobs'[j].stay_info = crs[c].requested_stay
    /\ jobs'[j].status = "assigned"

\* C4: an acceptance is all or nothing: the step of an accept that succeeds
\* commits all four effects, and the step of an accept that fails part-way
\* (the request's job does not exist) commits nothing.
C4_AcceptAtomic ==
    [][/\ Accepting(last') => AcceptEffects(last'.id, crs[last'.id].job_id)
       /\ (last'.op = "decide_change" /\ last'.result = "500") => UNCHANGED db]_vars

C4_Witness ==
    /\ last = Outcome("decide_change", "500")
    /\ \E c \in 1..Len(crs) :
          crs[c].job_id \notin JobIds /\ crs[c].status = "pending"
    /\ assignments = << >>

\* C5: a rejection changes the status of that ChangeRequest to 'rejected' and
\* nothing else: no Job and no Assignment changes.
C5_RejectFrame ==
    [][Rejecting(last') =>
          /\ crs' = [crs EXCEPT ![last'.id].status = "rejected"]
          /\ jobs' = jobs
          /\ assignments' = assignments
          /\ UNCHANGED <<users, views>>]_vars

C5_Witness ==
    /\ Rejecting(last)
    /\ crs[last.id].status = "rejected"
    /\ crs[last.id].job_id \in JobIds
    /\ jobs[crs[last.id].job_id].status = "assigned"

Resolved(cr) == cr.status \in {"accepted", "rejected"}

\* C6: a resolved ChangeRequest never changes again, and a decide on it
\* fails and writes nothing.
C6_ResolvedOnce ==
    [][\A c \in 1..Len(crs) :
          Resolved(crs[c]) =>
              /\ crs'[c] = crs[c]
              /\ (last'.op = "decide_change" /\ last'.id = c) =>
                    (last'.result # "ok" /\ UNCHANGED db)]_vars

\* C7: a decide takes effect only when the acting farmer owns the request's
\* job; otherwise no ChangeRequest, Job or Assignment changes.
C7_OwnerDecides ==
    [][(last'.op = "decide_change" /\ last'.result = "ok") =>
          \/ /\ crs[last'.id].job_id \in JobIds
             /\ jobs[crs[last'.id].job_id].farmer_id = last'.actor
          \/ UNCHANGED <<crs, jobs, assignments>>]_vars

Rank(status) ==
    CASE status = "open" -> 0
      [] status = "assigned" -> 1
      [] status = "confirmed" -> 2
      [] status = "closed" -> 3

\* C8: no step moves a job's status backwards in the order
\* open < assigned < confirmed < closed.
C8_StatusMonotonic ==
    [][\A j \in JobIds : Rank(jobs'[j].status) >= Rank(jobs[j].status)]_vars

\* C9: a job becomes confirmed only in the step of a successful confirm by
\* the labourer of an Assignment of that job, after which that Assignment has
\* both flags true; no other request sets a job to confirmed.
C9_OnlyConfirmConfirms ==
    [][\A j \in 1..Len(jobs') :
          (/\ jobs'[j].status = "confirmed"
           /\ (j \in JobIds => jobs[j].status # "confirmed")) =>
              /\ Confirming(last')
              /\ assignments'[last'.id].job_id = j
              /\ assignments'[last'.id].labour_id = last'.actor
              /\ Handshaken(assignments'[last'.id])]_vars

C9_Witness ==
    /\ Confirming(last)
    /\ assignments[last.id].labour_id = last.actor
    /\ jobs[assignments[last.id].job_id].status = "confirmed"

\* C10: the lifecycle of a job J and a labourer L.  After a repeated view
\* there is exactly one ViewNotification(J, L).  After the acceptance of L's
\* change request with a positive requested_days d, J.days = d, J is assigned
\* and exactly one Assignment(J, L) exists, accepted by the farmer, and not
\* confirmed by the labourer when J was open until then.  After L's
\* confirm of that assignment it is confirmed by the labourer and J is
\* confirmed.
C10_Lifecycle ==
    [][/\ (Viewing(last') /\ last'.found) =>
             Cardinality(RowsFor(views', last'.id, last'.labour)) = 1
       /\ Accepting(last') =>
             LET cr == crs[last'.id]
                 rows == RowsFor(assignments', cr.job_id, cr.labour_id)
             IN  /\ (cr.requested_days # None /\ cr.requested_days[1] > 0) =>
                        jobs'[cr.job_id].days = cr.requested_days[1]
                 /\ jobs'[cr.job_id].status = "assigned"
                 /\ Cardinality(rows) = 1
                 /\ \A a \in rows :
                        /\ assignments'[a].accepted_by_farmer
                        /\ jobs[cr.job_id].status = "open" =>
                               ~assignments'[a].confirmed_by_labour
       /\ Confirming(last') =>
             /\ assignments'[last'.id].confirmed_by_labour
             /\ jobs'[assignments'[last'.id].job_id].status = "confirmed"]_vars

C10_Witness ==
    /\ Confirming(last)
    /\ \E c \in 1..Len(crs) :
          /\ crs[c].status = "accepted"
          /\ crs[c].requested_days = Some(12)
          /\ crs[c].job_id = assignments[last.id].job_id
          /\ crs[c].labour_id = last.actor
    /\ jobs[assignments[last.id].job_id].days = 12
    /\ jobs[assignments[last.id].job_id].status = "confirmed"
    /\ Cardinality(RowsFor(views, assignments[last.id].job_id, last.actor)) = 1
    /\ Cardinality(RowsFor(assignments, assignments[last.id].job_id, last.actor)) = 1
    /\ Handshaken(assignments[last.id])

\* The job an acceptance (of a change request or direct) is for.
AcceptedJob(l) == IF l.op = "decide_change" THEN crs[l.id].job_id ELSE l.id

\* C11: an acceptance for labourer L on job J leaves every Assignment of
\* another (job, labourer) pair as it was, and when the pair (J, L) had no
\* Assignment it appends one for (J, L) with accepted_by_farmer true.
C11_OtherAssignmentsKept ==
    [][(Accepting(last') \/ Assigning(last')) =>
          /\ \A a \in 1..Len(assignments) :
                ~(/\ assignments[a].job_id = AcceptedJob(last')
                  /\ assignments[a].labour_id = last'.labour) =>
                      assignments'[a] = assignments[a]
          /\ ~last'.found =>
                /\ Len(assignments') = Len(assignments) + 1
                /\ assignments'[Len(assignments')] =
                      [job_id |-> AcceptedJob(last'), labour_id |-> last'.labour,
                       accepted_by_farmer |-> TRUE,
                       confirmed_by_labour |-> FALSE]]_vars

C11_Witness ==
    /\ Accepting(last)
    /\ ~last.found
    /\ Len(assignments) = 2
    /\ assignments[1].job_id = crs[last.id].job_id
    /\ assignments[1].labour_id # last.labour
    /\ assignments[2].job_id = crs[last.id].job_id
    /\ assignments[2].labour_id = last.labour
    /\ assignments[2].accepted_by_farmer

\* C13: a confirm by a labourer who is not the labourer of the Assignment
\* is refused and writes nothing: the Assignment's flags and the Job's
\* status stay as they were.
C13_ForeignConfirmRefused ==
    [][\A uid \in LabourArgs, a \in 1..Len(assignments) :
          (assignments[a].labour_id # uid /\ confirm_assignment(uid, a)) =>
              /\ last'.result = "forbidden"
              /\ assignments' = assignments
              /\ jobs' = jobs]_vars

C13_Witness ==
    /\ last = Outcome("confirm_assignment", "forbidden")
    /\ \E a \in 1..Len(assignments) : ~assignments[a].confirmed_by_labour
    /\ \A j \in JobIds : jobs[j].status = "assigned"

\* C14: a job is open right after post_job and its days are at least 1 in
\* every state.
C14_DaysAtLeastOne ==
    /\ \A j \in JobIds : jobs[j].days >= 1
    /\ (last.op = "post_job" /\ last.result = "ok") => jobs[last.id].status = "open"

\* C17: every ChangeRequest and every Assignment refers to a Job that
\* exists (a request that names a missing job creates no record).
C17_NoDanglingJob ==
    /\ \A c \in 1..Len(crs) : crs[c].job_id \in JobIds
    /\ \A a \in 1..Len(assignments) : assignments[a].job_id \in JobIds

\* C18 as stated: on acceptance a field of the job takes the request's
\* override whenever the request holds one (it is not None), and keeps its
\* value otherwise; the other descriptive fields keep theirs.
C18_OverridesPresent ==
    [][Accepting(last') =>
          LET cr == crs[last'.id]
              old == jobs[cr.job_id]
              new == jobs'[cr.job_id]
          IN  /\ new.days = IF cr.requested_days # None
                            THEN cr.requested_days[1] ELSE old.days
              /\ new.wage = IF cr.requested_wage # None
                            THEN cr.requested_wage ELSE old.wage
              /\ new.stay_info = IF cr.requested_stay # None
                                 THEN cr.requested_stay ELSE old.stay_info]_vars

\* C18 as amended: on acceptance a field of the job takes the request's
\* override when the override is truthy (days not None and not 0, wage and
\* stay not None and not empty), and keeps its value otherwise; title,
\* work_type, location, contact and farmer_id keep theirs.
C18_OverridesTruthy ==
    [][Accepting(last') =>
          LET cr == crs[last'.id]
              old == jobs[cr.job_id]
              new == jobs'[cr.job_id]
          IN  /\ new.days = IF cr.requested_days # None /\ cr.requested_days[1] # 0
                            THEN cr.requested_days[1] ELSE old.days
              /\ new.wage = IF cr.requested_wage # None /\ cr.requested_wage[1] # ""
                            THEN cr.requested_wage ELSE old.wage
              /\ new.stay_info =
                    IF cr.requested_stay # None /\ cr.requested_stay[1] # ""
                    THEN cr.requested_stay ELSE old.stay_info
              /\ new.title = old.title
              /\ new.work_type = old.work_type
              /\ new.location = old.location
              /\ new.contact = old.contact
              /\ new.farmer_id = old.farmer_id]_vars

C18_Witness ==
    /\ Accepting(last)
    /\ crs[last.id].requested_days = Some(0)
    /\ crs[last.id].requested_stay = Some("tent")
    /\ jobs[crs[last.id].job_id].days = 1
    /\ jobs[crs[last.id].job_id].stay_info = Some("tent")
    /\ jobs[crs[last.id].job_id].wage = Some("500")

\* C19: every Assignment is accepted by the farmer, so the step of a
\* successful confirm leaves the job of the Assignment confirmed.
C19_AcceptedSoConfirmConfirms ==
    /\ \A a \in 1..Len(assignments) : assignments[a].accepted_by_farmer
    /\ Confirming(last) =>
          /\ assignments[last.id].confirmed_by_labour
          /\ jobs[assignments[last.id].job_id].status = "confirmed"

C19_Witness ==
    /\ Confirming(last)
    /\ Len(assignments) = 2
    /\ assignments[last.id].accepted_by_farmer
    /\ jobs[assignments[last.id].job_id].status = "confirmed"

\* C20: a job is open exactly when no Assignment exists for it, and no job
\* is closed.
C20_OpenIffUnassigned ==
    \A j \in JobIds :
        /\ jobs[j].status = "open" <=> RowsOfJob(assignments, j) = {}
        /\ jobs[j].status # "closed"

C20_Witness ==
    /\ Assigning(last)
    /\ ~last.found
    /\ jobs[last.id].status = "assigned"
    /\ Cardinality(RowsOfJob(assignments, last.id)) = 1

Registering(l) == l.op \in {"farmer_register", "labour_register"}

\* C12: a registration with a phone that a user of either role holds is
\* refused as a duplicate and creates no user, one with a new phone appends
\* the user, and no two users share a phone.
C12_PhoneUnique ==
    [][/\ \A phone \in Phones :
             (farmer_register(phone) \/ labour_register(phone)) =>
                 IF \E u \in 1..Len(users) : users[u].phone = phone
                 THEN last'.result = "duplicate" /\ users' = users
                 ELSE last'.result = "ok" /\ Len(users') = Len(users) + 1
       /\ \A u, v \in 1..Len(users') :
             u # v => users'[u].phone # users'[v].phone]_vars

C12_Witness ==
    /\ last.op = "labour_register"
    /\ last.result = "duplicate"
    /\ Len(users) = 1
    /\ users[1].role = "farmer"

\* C15: when acceptances for one (job, labourer) pair run concurrently, with
\* the lookup and the insert and commit of a request as separate steps, at
\* most one Assignment exists for the pair.
C15_RaceOneAssignment ==
    \A j \in JobArgs, l \in LabourArgs :
        Cardinality(RowsFor(assignments, j, l)) <= 1

\* C16: when views of one job by one labourer run concurrently, with the
\* existence check and the insert as separate steps, no state has two
\* ViewNotifications for the pair.
C16_RaceOneView ==
    \A j \in JobArgs, l \in LabourArgs :
        Cardinality(RowsFor(views, j, l)) <= 1

====
